---- MODULE Spec2Model ----
(***************************************************************************)
(* The command-to-transaction pipeline of the Solana GPT wallet.           *)
(*                                                                         *)
(* Spec models the WalletDashboard component                               *)
(* (src/src/components/WalletDashboard.tsx): its React state, the wallet   *)
(* store's balance, and every asynchronous handler, cut at its awaits.     *)
(* A handler's closure captures the values of the render it was created   *)
(* in (publicKey, balance, pendingTransaction); the captured values are    *)
(* fields of the in-flight records hs and execs.                           *)
(*                                                                         *)
(* SpecApi models the three API route handlers (execute-transaction,       *)
(* execute-swap, process-command) of the server process: the environment,  *)
(* the module singleton gptService and the handler invocations in flight,  *)
(* cut at their awaits.  The methods of GPTService are calls whose         *)
(* outcome (a value or a throw) is chosen by the step that ends the await. *)
(*                                                                         *)
(* SpecPayees is Spec with a classifier that proposes sends to two payees. *)
(* SpecClassify composes the dashboard with the process-command handler:   *)
(* the fetch of processCommand is a request to the handler, and the        *)
(* handler's response decides how handleSubmit goes on.                    *)
(*                                                                         *)
(* SpecSessions is the dashboard used by two wallets one after the other;  *)
(* SpecFair is Spec with the awaits of handleSubmit settling.              *)
(* SpecSizing takes executeTransaction as a function of the command's      *)
(* amount and the render's balance, with amounts finer than one lamport.   *)
(*                                                                         *)
(* Amounts and balances of the other specifications are whole numbers of   *)
(* SOL.  State that only feeds                                             *)
(* the rendering (showBalance, usdcBalance, recentTransactions,            *)
(* isLoadingTransactions, showMainnetWarning, the store's error string)    *)
(* is left out; the awaits of the calls that set it are kept.              *)
(***************************************************************************)
EXTENDS Integers, Sequences, FiniteSets, Bags, TLC

\* ------------------------------------------------------------------ bounds
\* largest balance (and amount) the ledger and the classifier produce
MaxBalance == 1
\* executeTransaction calls that may be in flight at the same time
MaxExecs == 2
\* API requests that the server may be handling at the same time
MaxReqs == 2
\* the largest small amount and balance of the sizing steps, in units
MaxUnits == 8

\* ------------------------------------------------------------- value sets
Wallets == {"W1", "W2", "W3"}

\* the wallets that connect to the dashboard in Spec
SessionWallets == {"W1"}

\* the destinations the classifier returns in Spec; "bad" is a string that is
\* not a base58 public key
Addresses == {"W1", "W2", "bad"}

\* an optional string field that is absent (undefined) or empty: falsy
NoString == ""

\* an optional amount that is absent (amount?: number left undefined)
NoAmount == -99

Amounts == (-1)..MaxBalance

Balances == 0..MaxBalance

\* the wallet is disconnected (publicKey is null)
NoKey == "null"

\* WalletCommand: what the classifier returns through /api/process-command
WalletCommand ==
    [action : {"send"},
     amount : Amounts \cup {NoAmount},
     toAddress : Addresses \cup {NoString},
     fromToken : {NoString}, toToken : {NoString},
     needsMoreInfo : BOOLEAN,
     error : {NoString, "classifier warning"}]
    \cup
    [action : {"swap"},
     amount : {0, 1, NoAmount},
     toAddress : {NoString},
     fromToken : {"SOL"}, toToken : {"USDC", "SOL"},
     needsMoreInfo : BOOLEAN,
     error : {NoString}]
    \cup
    [action : {"check_balance", "show_history"},
     amount : {NoAmount},
     toAddress : {NoString},
     fromToken : {NoString}, toToken : {NoString},
     needsMoreInfo : {FALSE},
     error : {NoString, "classifier warning"}]
    \cup
    [action : {"ask_address", "receive"},
     amount : {NoAmount},
     toAddress : {NoString},
     fromToken : {NoString}, toToken : {NoString},
     needsMoreInfo : BOOLEAN,
     error : {NoString, "classifier warning"}]

\* the classifier's answers in SpecPayees: sends of 1 SOL to two other wallets,
\* and the two queries
PayeeCommands ==
    [action : {"send"},
     amount : {1},
     toAddress : {"W2", "W3"},
     fromToken : {NoString}, toToken : {NoString},
     needsMoreInfo : {FALSE},
     error : {NoString}]
    \cup
    [action : {"check_balance", "show_history"},
     amount : {NoAmount},
     toAddress : {NoString},
     fromToken : {NoString}, toToken : {NoString},
     needsMoreInfo : {FALSE},
     error : {NoString}]

\* useState<WalletCommand | null>(null)
NoCommand == [action |-> "null"]

\* TransactionError | null
NoError == [type |-> "null", message |-> ""]

ErrInvalidAmount == [type |-> "error", message |-> "Invalid amount"]

ErrInsufficient == [type |-> "error", message |-> "Insufficient balance"]

ErrFailed == [type |-> "error", message |-> "Transaction failed"]

ErrProcessing == [type |-> "error", message |-> "Processing Error"]

ErrWarning(msg) == [type |-> "warning", message |-> msg]

\* what the step just taken completed: a handleSubmit or an executeTransaction,
\* with the action of the command, the verdict reached and, for a handleSubmit,
\* the pendingTransaction that was held when it completed; NoEvent otherwise
NoEvent == [op |-> "none", action |-> "none", verdict |-> "none", held |-> NoCommand]

ExecEvent(verdict) ==
    [op |-> "executeTransaction", action |-> "send", verdict |-> verdict, held |-> NoCommand]

\* the onCancel callback of the confirmation dialog ran
CancelEvent ==
    [op |-> "onCancel", action |-> "send", verdict |-> "none", held |-> NoCommand]

\* no handleSubmit is in flight
HsIdle == [pc |-> "idle"]

VARIABLES
    publicKey,              \* useWallet().publicKey, NoKey when disconnected
    balance,                \* useWalletStore().balance
    input,                  \* the command text
    processing,
    isTyping,
    response,
    pendingTransaction,
    transactionError,
    transactionInProgress,
    hs,                     \* the handleSubmit in flight, with its closure
    execs,                  \* the bag of executeTransaction calls in flight
    fetches,                \* wallets whose updateBalance (effect, refresh) is in flight
    lastEvent               \* history: what the step just taken completed

vars == <<publicKey, balance, input, processing, isTyping, response,
          pendingTransaction, transactionError, transactionInProgress,
          hs, execs, fetches, lastEvent>>

SubmitEvent(action, verdict) ==
    [op |-> "handleSubmit", action |-> action, verdict |-> verdict,
     held |-> pendingTransaction]

\* -------------------------------------------------- the server's state
\* the amount of a request body as JSON carries it: absent, a number ("n:")
\* or a string ("s:")
JsonAmounts == {"undefined", "n:0", "n:1", "n:-1", "s:1", "s:0", "s:abc"}

\* parseFloat's answer for a text that is not a number
NaN == -98

\* no response was sent by the step just taken
NoResponse ==
    [handler |-> "none", status |-> 0, error |-> NoString,
     payload |-> "none", message |-> NoString]

VARIABLES
    agentKey,               \* process.env.AGENT_PRIVATE_KEY is set
    gptService,             \* the singleton of execute-transaction: "null" or "agent"
    reqs,                   \* the bag of handler invocations waiting at an await
    lastResponse            \* history: the response the step just taken sent

apiVars == <<agentKey, gptService, reqs, lastResponse>>

\* the server has started and handles nothing
ApiIdle ==
    /\ gptService = "null"
    /\ reqs = EmptyBag
    /\ lastResponse = NoResponse

\* ------------------------------------------- the sizing of a transfer
\* LAMPORTS_PER_SOL of @solana/web3.js
LamportsPerSol == 1000000000

\* an amount or a balance of the sizing steps is a number of SOL written as
\* a whole count of units of 1 / (UnitsPerLamport * LamportsPerSol) SOL, so
\* that amounts below one lamport and between two lamports are numbers too
UnitsPerLamport == 2

\* 1 SOL in those units
OneSol == UnitsPerLamport * LamportsPerSol

\* no executeTransaction is being sized
SizeIdle == [pc |-> "idle"]

VARIABLES
    sizing                  \* the executeTransaction whose transfer is being sized

sizeVars == <<sizing>>

allVars == <<vars, apiVars, sizeVars>>

\* the dashboard is mounted; the server it talks to has no agent key
Init ==
    /\ sizing = SizeIdle
    /\ agentKey = FALSE
    /\ ApiIdle
    /\ publicKey = NoKey
    /\ balance = 0
    /\ input = ""
    /\ processing = FALSE
    /\ isTyping = FALSE
    /\ response = ""
    /\ pendingTransaction = NoCommand
    /\ transactionError = NoError
    /\ transactionInProgress = FALSE
    /\ hs = HsIdle
    /\ execs = EmptyBag
    /\ fetches = {}
    /\ lastEvent = NoEvent

\* ---------------------------------------------------------- pure helpers
\* JavaScript truthiness of an optional number: undefined and 0 are falsy
TruthyAmount(a) == a # NoAmount /\ a # 0

\* JavaScript truthiness of an optional string
TruthyString(s) == s # NoString

\* new PublicKey(s) succeeds
IsPublicKey(s) == s \in Wallets

\* validateTransaction without its balance check
ValidateTransaction_noBalanceCheck(amount, bal) ==
    IF amount <= 0 THEN ErrInvalidAmount
    ELSE NoError

\* validateTransaction(amount) of a render whose balance is bal:
\* the error it sets, NoError when it returns true
ValidateTransaction(amount, bal) ==
    IF amount <= 0 THEN ErrInvalidAmount
    ELSE IF amount > bal THEN ErrInsufficient
    ELSE NoError

\* line 288: the send is handed to validateTransaction
ReachesValidation(cmd) == TruthyAmount(cmd.amount) /\ TruthyString(cmd.toAddress)

\* a send branch that keeps a pendingTransaction already held
ProposeSend_keepsHeld(cmd, bal, pending) ==
    IF pending = NoCommand /\ ReachesValidation(cmd)
        /\ ValidateTransaction(cmd.amount, bal) = NoError
    THEN cmd ELSE pending

\* lines 287-292: the pendingTransaction after the send branch of handleSubmit
ProposeSend(cmd, bal, pending) ==
    IF ReachesValidation(cmd) /\ ValidateTransaction(cmd.amount, bal) = NoError
    THEN cmd ELSE pending

\* an action dispatch that drops the pendingTransaction held when the command
\* is not a send
Propose_dropsOnQuery(cmd, bal, pending) ==
    IF cmd.action = "send" THEN ProposeSend(cmd, bal, pending) ELSE NoCommand

\* lines 285-298: the pendingTransaction after the action dispatch of handleSubmit
Propose(cmd, bal, pending) ==
    IF cmd.action = "send" THEN ProposeSend(cmd, bal, pending) ELSE pending

\* lines 287-301: the transactionError after the action dispatch and the
\* classifier's error; handleSubmit has set it to null at line 282
SubmitError(cmd, bal, err) ==
    IF TruthyString(cmd.error) THEN ErrWarning(cmd.error)
    ELSE IF cmd.action = "send" /\ ReachesValidation(cmd)
            /\ ValidateTransaction(cmd.amount, bal) # NoError
         THEN ValidateTransaction(cmd.amount, bal)
    ELSE err

\* what handleSubmit decided about cmd
SubmitVerdict(cmd, bal) ==
    IF cmd.action # "send" THEN "none"
    ELSE IF ~ReachesValidation(cmd) THEN "not validated"
    ELSE IF ValidateTransaction(cmd.amount, bal) = NoError THEN "proposed"
    ELSE ValidateTransaction(cmd.amount, bal).message

\* the executeTransaction call e moves on to the await named pc
ExecMoves(e, pc) == (execs (-) SetToBag({e})) (+) SetToBag({[e EXCEPT !.pc = pc]})

\* the executeTransaction call e returns
ExecReturns(e) == execs (-) SetToBag({e})

\* ------------------------------------------------------- wallet session
\* useEffect([publicKey]), the wallet adapter reports a connected wallet
Connect(w) ==
    /\ lastEvent' = NoEvent
    /\ publicKey = NoKey
    /\ publicKey' = w
    /\ fetches' = fetches \cup {w}
    /\ UNCHANGED <<balance, input, processing, isTyping, response,
                   pendingTransaction, transactionError, transactionInProgress,
                   hs, execs>>

\* useEffect([publicKey]), the wallet adapter reports no wallet
Disconnect ==
    /\ lastEvent' = NoEvent
    /\ publicKey # NoKey
    /\ publicKey' = NoKey
    /\ balance' = 0
    /\ pendingTransaction' = NoCommand
    /\ transactionError' = NoError
    /\ UNCHANGED <<input, processing, isTyping, response, transactionInProgress,
                   hs, execs, fetches>>

\* the refresh button: updateBalance() of the current render
RefreshClick ==
    /\ lastEvent' = NoEvent
    /\ publicKey # NoKey
    /\ publicKey \notin fetches
    /\ fetches' = fetches \cup {publicKey}
    /\ UNCHANGED <<publicKey, balance, input, processing, isTyping, response,
                   pendingTransaction, transactionError, transactionInProgress,
                   hs, execs>>

\* updateBalance: getBalance of the captured wallet w answers b, or throws
UpdateBalanceDone(w, ok, b) ==
    /\ lastEvent' = NoEvent
    /\ w \in fetches
    /\ fetches' = fetches \ {w}
    /\ balance' = IF ok THEN b ELSE 0
    /\ UNCHANGED <<publicKey, input, processing, isTyping, response,
                   pendingTransaction, transactionError, transactionInProgress,
                   hs, execs>>

\* the 5 second timer that clears a displayed error
ErrorTimeout ==
    /\ lastEvent' = NoEvent
    /\ transactionError # NoError
    /\ transactionError' = NoError
    /\ UNCHANGED <<publicKey, balance, input, processing, isTyping, response,
                   pendingTransaction, transactionInProgress, hs, execs, fetches>>

\* ------------------------------------------------------- the command form
\* the text input, disabled while processing or transactionInProgress
OnChangeInput(t) ==
    /\ lastEvent' = NoEvent
    /\ publicKey # NoKey
    /\ ~(processing \/ transactionInProgress)
    /\ t # input
    /\ input' = t
    /\ UNCHANGED <<publicKey, balance, processing, isTyping, response,
                   pendingTransaction, transactionError, transactionInProgress,
                   hs, execs, fetches>>

\* the Send and Swap shortcut buttons put a text in the input; they are not
\* disabled while processing
QuickInput(t) ==
    /\ lastEvent' = NoEvent
    /\ publicKey # NoKey
    /\ t # input
    /\ input' = t
    /\ UNCHANGED <<publicKey, balance, processing, isTyping, response,
                   pendingTransaction, transactionError, transactionInProgress,
                   hs, execs, fetches>>

\* handleSubmit up to its await of processCommand; the submit button is
\* disabled while processing or transactionInProgress
HandleSubmit ==
    /\ lastEvent' = NoEvent
    /\ input # ""
    /\ publicKey # NoKey
    /\ ~(processing \/ transactionInProgress)
    /\ processing' = TRUE
    /\ isTyping' = TRUE
    /\ transactionError' = NoError
    /\ hs' = [pc |-> "classify", publicKey |-> publicKey, balance |-> balance,
              hadPending |-> pendingTransaction # NoCommand, cmd |-> NoCommand]
    /\ UNCHANGED <<publicKey, balance, input, response, pendingTransaction,
                   transactionInProgress, execs, fetches>>

\* the finally block of handleSubmit
SubmitFinally ==
    /\ isTyping' = FALSE
    /\ processing' = FALSE
    /\ input' = IF hs.hadPending THEN input ELSE ""
    /\ hs' = HsIdle

\* lines 299-302 and the finally block
SubmitTail(cmd, err) ==
    /\ lastEvent' = SubmitEvent(cmd.action, SubmitVerdict(cmd, hs.balance))
    /\ transactionError' = SubmitError(cmd, hs.balance, err)
    /\ response' = "message"
    /\ SubmitFinally

\* a catch block that also drops the held pendingTransaction
SubmitFailed_dropsPending ==
    /\ hs.pc = "classify"
    /\ response' = "processing error"
    /\ lastEvent' = [SubmitEvent("threw", "none") EXCEPT !.held = NoCommand]
    /\ transactionError' = ErrProcessing
    /\ pendingTransaction' = NoCommand
    /\ SubmitFinally
    /\ UNCHANGED <<publicKey, balance, transactionInProgress, execs, fetches>>

\* processCommand threw: the catch block of handleSubmit
SubmitFailed ==
    /\ hs.pc = "classify"
    /\ response' = "processing error"
    /\ lastEvent' = [SubmitEvent("threw", "none") EXCEPT !.held = NoCommand]
    /\ transactionError' = ErrProcessing
    /\ SubmitFinally
    /\ UNCHANGED <<publicKey, balance, pendingTransaction, transactionInProgress,
                   execs, fetches>>

\* a handleSubmit that also executes a validated send at once
SubmitClassified_executes(cmd) ==
    /\ hs.pc = "classify"
    /\ IF cmd.action = "check_balance"
       THEN /\ hs' = [hs EXCEPT !.pc = "balance", !.cmd = cmd]
            /\ lastEvent' = NoEvent
            /\ UNCHANGED <<input, processing, isTyping, response,
                           pendingTransaction, transactionError>>
       ELSE IF cmd.action = "show_history"
       THEN /\ hs' = [hs EXCEPT !.pc = "history", !.cmd = cmd]
            /\ lastEvent' = NoEvent
            /\ UNCHANGED <<input, processing, isTyping, response,
                           pendingTransaction, transactionError>>
       ELSE /\ pendingTransaction' = Propose(cmd, hs.balance, pendingTransaction)
            /\ SubmitTail(cmd, transactionError)
    /\ IF SubmitVerdict(cmd, hs.balance) = "proposed"
       THEN /\ transactionInProgress' = TRUE
            /\ execs' = execs (+) SetToBag({[pc |-> "blockhash",
                                             amount |-> cmd.amount,
                                             toAddress |-> cmd.toAddress,
                                             publicKey |-> hs.publicKey]})
       ELSE UNCHANGED <<transactionInProgress, execs>>
    /\ UNCHANGED <<publicKey, balance, fetches>>

\* processCommand returned cmd: the action dispatch of handleSubmit
SubmitClassified(cmd) ==
    /\ hs.pc = "classify"
    /\ IF cmd.action = "check_balance"
       THEN /\ hs' = [hs EXCEPT !.pc = "balance", !.cmd = cmd]
            /\ lastEvent' = NoEvent
            /\ UNCHANGED <<input, processing, isTyping, response,
                           pendingTransaction, transactionError>>
       ELSE IF cmd.action = "show_history"
       THEN /\ hs' = [hs EXCEPT !.pc = "history", !.cmd = cmd]
            /\ lastEvent' = NoEvent
            /\ UNCHANGED <<input, processing, isTyping, response,
                           pendingTransaction, transactionError>>
       ELSE /\ pendingTransaction' = Propose(cmd, hs.balance, pendingTransaction)
            /\ SubmitTail(cmd, transactionError)
    /\ UNCHANGED <<publicKey, balance, transactionInProgress, execs, fetches>>

\* check_balance: await updateBalance() answered
SubmitBalanceDone(ok, b) ==
    /\ lastEvent' = NoEvent
    /\ hs.pc = "balance"
    /\ balance' = IF ok THEN b ELSE 0
    /\ hs' = [hs EXCEPT !.pc = "usdc"]
    /\ UNCHANGED <<publicKey, input, processing, isTyping, response,
                   pendingTransaction, transactionError, transactionInProgress,
                   execs, fetches>>

\* check_balance: await updateUsdcBalance() answered
SubmitUsdcDone ==
    /\ hs.pc = "usdc"
    /\ SubmitTail(hs.cmd, transactionError)
    /\ UNCHANGED <<publicKey, balance, pendingTransaction, transactionInProgress,
                   execs, fetches>>

\* show_history: await fetchRecentTransactions() answered
SubmitHistoryDone ==
    /\ hs.pc = "history"
    /\ SubmitTail(hs.cmd, transactionError)
    /\ UNCHANGED <<publicKey, balance, pendingTransaction, transactionInProgress,
                   execs, fetches>>

\* ------------------------------------------------- confirmation and transfer
\* the finally block of executeTransaction
ExecFinally ==
    /\ transactionInProgress' = FALSE
    /\ pendingTransaction' = NoCommand

\* the catch block of executeTransaction, then finally
ExecCatch ==
    /\ transactionError' = ErrFailed
    /\ ExecFinally

\* line 230: executeTransaction returns at once
ExecSkips(command, key) ==
    key = NoKey \/ ~TruthyString(command.toAddress) \/ ~TruthyAmount(command.amount)

\* lines 237-240: new PublicKey(command.toAddress) or the self-transfer check throws
BuildThrows(command, key) ==
    ~IsPublicKey(command.toAddress) \/ command.toAddress = key

\* an executeTransaction that does not validate the amount again
ExecuteTransaction_unvalidated(command) ==
    IF ExecSkips(command, publicKey)
    THEN UNCHANGED vars
    ELSE IF BuildThrows(command, publicKey)
    THEN /\ ExecCatch
         /\ lastEvent' = ExecEvent("build error")
         /\ UNCHANGED <<publicKey, balance, input, processing, isTyping, response,
                        hs, execs, fetches>>
    ELSE /\ BagCardinality(execs) < MaxExecs
         /\ transactionInProgress' = TRUE
         /\ lastEvent' = NoEvent
         /\ execs' = execs (+) SetToBag({[pc |-> "blockhash",
                                          amount |-> command.amount,
                                          toAddress |-> command.toAddress,
                                          publicKey |-> publicKey]})
         /\ UNCHANGED <<publicKey, balance, input, processing, isTyping, response,
                        pendingTransaction, transactionError, hs, fetches>>

\* executeTransaction(command) of the current render, up to its first await:
\* the transfer is built and getLatestBlockhash is called
ExecuteTransaction(command) ==
    IF ExecSkips(command, publicKey)
    THEN UNCHANGED vars
    ELSE IF ValidateTransaction(command.amount, balance) # NoError
    THEN /\ transactionError' = ValidateTransaction(command.amount, balance)
         /\ pendingTransaction' = NoCommand
         /\ lastEvent' = ExecEvent(ValidateTransaction(command.amount, balance).message)
         /\ UNCHANGED <<publicKey, balance, input, processing, isTyping, response,
                        transactionInProgress, hs, execs, fetches>>
    ELSE IF BuildThrows(command, publicKey)
    THEN /\ ExecCatch
         /\ lastEvent' = ExecEvent("build error")
         /\ UNCHANGED <<publicKey, balance, input, processing, isTyping, response,
                        hs, execs, fetches>>
    ELSE /\ BagCardinality(execs) < MaxExecs
         /\ transactionInProgress' = TRUE
         /\ lastEvent' = NoEvent
         /\ execs' = execs (+) SetToBag({[pc |-> "blockhash",
                                          amount |-> command.amount,
                                          toAddress |-> command.toAddress,
                                          publicKey |-> publicKey]})
         /\ UNCHANGED <<publicKey, balance, input, processing, isTyping, response,
                        pendingTransaction, transactionError, hs, fetches>>

\* the Confirm button of the TransactionConfirmation dialog
OnConfirmTransaction ==
    /\ publicKey # NoKey
    /\ IF pendingTransaction # NoCommand
       THEN ExecuteTransaction(pendingTransaction)
       ELSE UNCHANGED vars

\* a Cancel button that also runs the transaction it was asked to drop
OnCancel_executes ==
    /\ publicKey # NoKey
    /\ pendingTransaction # NoCommand
    /\ pendingTransaction.action = "send"
    /\ BagCardinality(execs) < MaxExecs
    /\ lastEvent' = CancelEvent
    /\ pendingTransaction' = NoCommand
    /\ response' = "cancelled"
    /\ execs' = execs (+) SetToBag({[pc |-> "blockhash",
                                     amount |-> pendingTransaction.amount,
                                     toAddress |-> pendingTransaction.toAddress,
                                     publicKey |-> publicKey]})
    /\ UNCHANGED <<publicKey, balance, input, processing, isTyping,
                   transactionError, transactionInProgress, hs, fetches>>

\* the Cancel button of the TransactionConfirmation dialog, which is rendered
\* while pendingTransaction is a send
OnCancel ==
    /\ lastEvent' = CancelEvent
    /\ publicKey # NoKey
    /\ pendingTransaction # NoCommand
    /\ pendingTransaction.action = "send"
    /\ pendingTransaction' = NoCommand
    /\ response' = "cancelled"
    /\ UNCHANGED <<publicKey, balance, input, processing, isTyping,
                   transactionError, transactionInProgress, hs, execs, fetches>>

\* getLatestBlockhash answered: sendTransaction is called
ExecBlockhashOk(e) ==
    /\ lastEvent' = NoEvent
    /\ e.pc = "blockhash"
    /\ execs' = ExecMoves(e, "send")
    /\ UNCHANGED <<publicKey, balance, input, processing, isTyping, response,
                   pendingTransaction, transactionError, transactionInProgress,
                   hs, fetches>>

\* a broadcast failure that is retried: the call goes back to getLatestBlockhash
ExecNetworkFail_retries(e) ==
    /\ e.pc \in {"blockhash", "send"}
    /\ ExecCatch
    /\ lastEvent' = ExecEvent("network error")
    /\ execs' = ExecMoves(e, "blockhash")
    /\ UNCHANGED <<publicKey, balance, input, processing, isTyping, response,
                   hs, fetches>>

\* getLatestBlockhash or sendTransaction threw
ExecNetworkFail(e) ==
    /\ e.pc \in {"blockhash", "send"}
    /\ ExecCatch
    /\ lastEvent' = ExecEvent("network error")
    /\ execs' = ExecReturns(e)
    /\ UNCHANGED <<publicKey, balance, input, processing, isTyping, response,
                   hs, fetches>>

\* sendTransaction returned a signature: sleep(1000) starts
ExecSendOk(e) ==
    /\ lastEvent' = NoEvent
    /\ e.pc = "send"
    /\ response' = "sent"
    /\ execs' = ExecMoves(e, "sleep")
    /\ UNCHANGED <<publicKey, balance, input, processing, isTyping,
                   pendingTransaction, transactionError, transactionInProgress,
                   hs, fetches>>

\* sleep(1000) is over: updateBalance() calls getBalance
ExecSleepDone(e) ==
    /\ lastEvent' = NoEvent
    /\ e.pc = "sleep"
    /\ execs' = ExecMoves(e, "balance")
    /\ UNCHANGED <<publicKey, balance, input, processing, isTyping, response,
                   pendingTransaction, transactionError, transactionInProgress,
                   hs, fetches>>

\* updateBalance() answered: fetchRecentTransactions() starts
ExecBalanceDone(e, ok, b) ==
    /\ lastEvent' = NoEvent
    /\ e.pc = "balance"
    /\ balance' = IF ok THEN b ELSE 0
    /\ execs' = ExecMoves(e, "history")
    /\ UNCHANGED <<publicKey, input, processing, isTyping, response,
                   pendingTransaction, transactionError, transactionInProgress,
                   hs, fetches>>

\* fetchRecentTransactions() answered, then the finally block
ExecHistoryDone(e, ok) ==
    /\ e.pc = "history"
    /\ response' = IF ok THEN response ELSE "history failed"
    /\ ExecFinally
    /\ lastEvent' = ExecEvent("executed")
    /\ execs' = ExecReturns(e)
    /\ UNCHANGED <<publicKey, balance, input, processing, isTyping,
                   transactionError, hs, fetches>>

\* ------------------------------------------------------ the API handlers
\* JavaScript truthiness of a JSON amount: undefined and the number 0 are falsy
TruthyJson(j) == j \notin {"undefined", "n:0"}

\* parseFloat(amount)
ParseFloat(j) ==
    CASE j \in {"n:1", "s:1"} -> 1
      [] j \in {"n:0", "s:0"} -> 0
      [] j = "n:-1" -> -1
      [] OTHER -> NaN

Tokens == {"SOL", "USDC"}

\* what buildSwapTransaction throws: an Error with a message, or another value
SwapThrows ==
    {[isError |-> TRUE, message |-> "No swap routes found"],
     [isError |-> TRUE, message |-> "Swap failed: No swap routes found for this pair"],
     [isError |-> TRUE, message |-> "Quote service unavailable"],
     [isError |-> FALSE, message |-> "No swap routes found"]}

\* error.message.includes('No swap routes found')
IncludesNoRoutes(m) ==
    m \in {"No swap routes found", "Swap failed: No swap routes found for this pair"}

\* a handler invocation waiting at the await named pc
Request(handler, pc, amount, parsed, toAddress, fromToken, toToken, service) ==
    [handler |-> handler, pc |-> pc, amount |-> amount, parsed |-> parsed,
     toAddress |-> toAddress, fromToken |-> fromToken, toToken |-> toToken,
     service |-> service]

\* res.status(status).json({error})
ErrorResponse(handler, status, error) ==
    [handler |-> handler, status |-> status, error |-> error,
     payload |-> "none", message |-> NoString]

\* the invocation ends with the response resp
Responds(resp) ==
    /\ lastResponse' = resp
    /\ UNCHANGED <<agentKey, gptService, reqs>>

\* the invocation r ends with the response resp
Returns(r, resp) ==
    /\ lastResponse' = resp
    /\ reqs' = reqs (-) SetToBag({r})
    /\ UNCHANGED <<agentKey, gptService>>

\* the invocation r moves on to the await named pc
Awaits(r, pc) ==
    /\ lastResponse' = NoResponse
    /\ reqs' = (reqs (-) SetToBag({r})) (+) SetToBag({[r EXCEPT !.pc = pc]})
    /\ UNCHANGED <<agentKey, gptService>>

\* the operator sets AGENT_PRIVATE_KEY in the server's environment
ConfigureKey ==
    /\ ~agentKey
    /\ agentKey' = TRUE
    /\ lastResponse' = NoResponse
    /\ UNCHANGED <<gptService, reqs>>

\* an execute-transaction handler that falls back to a built-in key when
\* AGENT_PRIVATE_KEY is not set
TxRequest_defaultKey(method, amount, toAddress, ctorOk) ==
    /\ BagCardinality(reqs) < MaxReqs
    /\ IF method # "POST"
       THEN Responds(ErrorResponse("tx", 405, "Method not allowed"))
       ELSE IF ~TruthyJson(amount) \/ ~TruthyString(toAddress)
       THEN Responds(ErrorResponse("tx", 400, "Missing parameters"))
       ELSE IF gptService = "null"
       THEN IF ~ctorOk
            THEN Responds(ErrorResponse("tx", 500, "Invalid private key"))
            ELSE /\ gptService' = "agent"
                 /\ reqs' = reqs (+) SetToBag({Request("tx", "getBalance", amount, NaN,
                                            toAddress, NoString, NoString, "agent")})
                 /\ lastResponse' = NoResponse
                 /\ UNCHANGED agentKey
       ELSE /\ reqs' = reqs (+) SetToBag({Request("tx", "executeSend", amount, NaN,
                                       toAddress, NoString, NoString, gptService)})
            /\ lastResponse' = NoResponse
            /\ UNCHANGED <<agentKey, gptService>>

\* execute-transaction: a request arrives and the handler runs to its first
\* await; ctorOk: new GPTService(...) does not throw
TxRequest(method, amount, toAddress, ctorOk) ==
    /\ BagCardinality(reqs) < MaxReqs
    /\ IF method # "POST"
       THEN Responds(ErrorResponse("tx", 405, "Method not allowed"))
       ELSE IF ~TruthyJson(amount) \/ ~TruthyString(toAddress)
       THEN Responds(ErrorResponse("tx", 400, "Missing parameters"))
       ELSE IF gptService = "null"
       THEN IF ~agentKey
            THEN Responds(ErrorResponse("tx", 500, "Agent private key is required"))
            ELSE IF ~ctorOk
            THEN Responds(ErrorResponse("tx", 500, "Invalid private key"))
            ELSE /\ gptService' = "agent"
                 /\ reqs' = reqs (+) SetToBag({Request("tx", "getBalance", amount, NaN,
                                            toAddress, NoString, NoString, "agent")})
                 /\ lastResponse' = NoResponse
                 /\ UNCHANGED agentKey
       ELSE /\ reqs' = reqs (+) SetToBag({Request("tx", "executeSend", amount, NaN,
                                       toAddress, NoString, NoString, gptService)})
            /\ lastResponse' = NoResponse
            /\ UNCHANGED <<agentKey, gptService>>

\* execute-transaction: getBalance of the agent wallet answered
TxBalanceDone(r, outcome) ==
    /\ r.handler = "tx" /\ r.pc = "getBalance"
    /\ CASE outcome = "funded" -> Awaits(r, "executeSend")
         [] outcome = "low" ->
              Returns(r, ErrorResponse("tx", 500, "Insufficient agent wallet balance"))
         [] OTHER -> Returns(r, ErrorResponse("tx", 500, "RPC error"))

\* execute-transaction: gptService.executeSend returned or threw
TxSendDone(r, ok) ==
    /\ r.handler = "tx" /\ r.pc = "executeSend"
    /\ IF ok
       THEN Returns(r, [handler |-> "tx", status |-> 200, error |-> NoString,
                        payload |-> "signature", message |-> NoString])
       ELSE Returns(r, ErrorResponse("tx", 500, "Send failed"))

\* an execute-swap handler that hands the agent key to its service when the
\* key is set
SwapRequest_agentKey(method, amount, fromToken, toToken, walletAddress, ctorOk) ==
    /\ BagCardinality(reqs) < MaxReqs
    /\ IF method # "POST"
       THEN Responds(ErrorResponse("swap", 405, "Method not allowed"))
       ELSE IF ~TruthyJson(amount) \/ ~TruthyString(fromToken)
               \/ ~TruthyString(toToken) \/ ~TruthyString(walletAddress)
       THEN Responds(ErrorResponse("swap", 400, "Missing parameters"))
       ELSE IF ~ctorOk
       THEN Responds(ErrorResponse("swap", 500, "Constructor error"))
       ELSE /\ reqs' = reqs (+) SetToBag({Request("swap", "buildSwap", amount,
                                       ParseFloat(amount), NoString, fromToken,
                                       toToken,
                                       IF agentKey THEN "agent" ELSE "null")})
            /\ lastResponse' = NoResponse
            /\ UNCHANGED <<agentKey, gptService>>

\* execute-swap: a request arrives and the handler runs to its await of
\* buildSwapTransaction
SwapRequest(method, amount, fromToken, toToken, walletAddress, ctorOk) ==
    /\ BagCardinality(reqs) < MaxReqs
    /\ IF method # "POST"
       THEN Responds(ErrorResponse("swap", 405, "Method not allowed"))
       ELSE IF ~TruthyJson(amount) \/ ~TruthyString(fromToken)
               \/ ~TruthyString(toToken) \/ ~TruthyString(walletAddress)
       THEN Responds(ErrorResponse("swap", 400, "Missing parameters"))
       ELSE IF ~ctorOk
       THEN Responds(ErrorResponse("swap", 500, "Constructor error"))
       ELSE /\ reqs' = reqs (+) SetToBag({Request("swap", "buildSwap", amount,
                                       ParseFloat(amount), NoString, fromToken,
                                       toToken, "null")})
            /\ lastResponse' = NoResponse
            /\ UNCHANGED <<agentKey, gptService>>

\* what buildSwapTransaction of a service returns: the service signs only
\* with an agent key of its own
SwapPayload(service) == IF service = "agent" THEN "signed" ELSE "unsigned"

\* execute-swap: buildSwapTransaction returned the serialized transaction
SwapBuilt(r) ==
    /\ r.handler = "swap" /\ r.pc = "buildSwap"
    /\ Returns(r, [handler |-> "swap", status |-> 200, error |-> NoString,
                    payload |-> SwapPayload(r.service),
                    message |-> "Swap transaction prepared successfully"])

\* a catch block that answers every thrown value with status 500
SwapFailed_fatal(r, t) ==
    /\ r.handler = "swap" /\ r.pc = "buildSwap"
    /\ Returns(r, ErrorResponse("swap", 500,
                    IF t.isError THEN t.message ELSE "Internal error"))

\* execute-swap: buildSwapTransaction threw t, the catch block
SwapFailed(r, t) ==
    /\ r.handler = "swap" /\ r.pc = "buildSwap"
    /\ IF t.isError /\ IncludesNoRoutes(t.message)
       THEN Returns(r, [handler |-> "swap", status |-> 200,
                        error |-> "No swap routes found. Please try a higher amount or a different token pair.",
                        payload |-> "null", message |-> NoString])
       ELSE Returns(r, ErrorResponse("swap", 500,
                        IF t.isError THEN t.message ELSE "Internal error"))

\* process-command: a request arrives and the handler runs to its await of
\* processUserInput
ProcRequest(method, text, key, ctorOk) ==
    /\ BagCardinality(reqs) < MaxReqs
    /\ IF method # "POST"
       THEN Responds(ErrorResponse("proc", 405, "Method not allowed"))
       ELSE IF ~TruthyString(text) \/ ~TruthyString(key)
       THEN Responds(ErrorResponse("proc", 400, "Missing required fields"))
       ELSE IF ~ctorOk
       THEN Responds(ErrorResponse("proc", 500, "Constructor error"))
       ELSE /\ reqs' = reqs (+) SetToBag({Request("proc", "processUserInput", "undefined",
                                       NaN, NoString, NoString, NoString, "null")})
            /\ lastResponse' = NoResponse
            /\ UNCHANGED <<agentKey, gptService>>

\* process-command: processUserInput returned or threw
ProcDone(r, ok) ==
    /\ r.handler = "proc" /\ r.pc = "processUserInput"
    /\ IF ok
       THEN Returns(r, [handler |-> "proc", status |-> 200, error |-> NoString,
                        payload |-> "result", message |-> NoString])
       ELSE Returns(r, ErrorResponse("proc", 500, "Classifier failed"))

\* ------------------------------------------------- sizing the transfer
\* Math.floor(amount * LAMPORTS_PER_SOL) of line 245 for an amount written in
\* units: amount * LAMPORTS_PER_SOL is amount / UnitsPerLamport lamports
Lamports(amount) == amount \div UnitsPerLamport

\* executeTransaction(command) of a render whose balance is bal, for a send
\* of amount to another wallet, up to the transfer instruction it builds
SizeTransfer(amount, bal) ==
    /\ sizing = SizeIdle
    /\ LET command == [toAddress |-> "W2", amount |-> amount]
           error == ValidateTransaction(amount, bal)
       IN  sizing' =
             IF ExecSkips(command, "W1")
               THEN [pc |-> "returned", amount |-> amount, balance |-> bal,
                     error |-> NoError, lamports |-> NoAmount]
             ELSE IF error # NoError
               THEN [pc |-> "rejected", amount |-> amount, balance |-> bal,
                     error |-> error, lamports |-> NoAmount]
             ELSE [pc |-> "built", amount |-> amount, balance |-> bal,
                   error |-> NoError, lamports |-> Lamports(amount)]

\* the executeTransaction that was sized is over
SizeDone ==
    /\ sizing # SizeIdle
    /\ sizing' = SizeIdle

\* ------------------------------------------------------------ specification
\* a step of the dashboard: the server's state is not touched
Dash(A) == A /\ UNCHANGED <<apiVars, sizeVars>>

\* a step of the server: the dashboard's state is not touched
Api(A) == A /\ UNCHANGED <<vars, sizeVars>>

\* the command text; the classifier's answer is not tied to it
Texts == {"send"}

\* the steps of a connected dashboard other than those around processCommand
DashRest ==
    \/ Dash(Disconnect)
    \/ Dash(RefreshClick)
    \/ \E w \in fetches, ok \in BOOLEAN, b \in Balances : Dash(UpdateBalanceDone(w, ok, b))
    \/ Dash(ErrorTimeout)
    \/ \E t \in Texts \cup {""} : Dash(OnChangeInput(t))
    \/ \E t \in Texts : Dash(QuickInput(t))
    \/ \E ok \in BOOLEAN, b \in Balances : Dash(SubmitBalanceDone(ok, b))
    \/ Dash(SubmitUsdcDone)
    \/ Dash(SubmitHistoryDone)
    \/ Dash(OnConfirmTransaction)
    \/ Dash(OnCancel)
    \/ \E e \in BagToSet(execs) : Dash(ExecBlockhashOk(e))
    \/ \E e \in BagToSet(execs) : Dash(ExecNetworkFail(e))
    \/ \E e \in BagToSet(execs) : Dash(ExecSendOk(e))
    \/ \E e \in BagToSet(execs) : Dash(ExecSleepDone(e))
    \/ \E e \in BagToSet(execs), ok \in BOOLEAN, b \in Balances : Dash(ExecBalanceDone(e, ok, b))
    \/ \E e \in BagToSet(execs), ok \in BOOLEAN : Dash(ExecHistoryDone(e, ok))

\* the steps of the dashboard other than those around processCommand
DashSteps ==
    \/ \E w \in SessionWallets : Dash(Connect(w))
    \/ DashRest

\* the steps of the dashboard when processCommand answers from Commands or
\* throws
NextWith(Commands) ==
    \/ DashSteps
    \/ Dash(HandleSubmit)
    \/ Dash(SubmitFailed)
    \/ \E cmd \in Commands : Dash(SubmitClassified(cmd))

Next == NextWith(WalletCommand)

Spec == Init /\ [][Next]_allVars

\* the steps that end an await of handleSubmit
SubmitSteps ==
    \/ Dash(SubmitFailed)
    \/ \E cmd \in WalletCommand : Dash(SubmitClassified(cmd))
    \/ \E ok \in BOOLEAN, b \in Balances : Dash(SubmitBalanceDone(ok, b))
    \/ Dash(SubmitUsdcDone)
    \/ Dash(SubmitHistoryDone)

\* the dashboard when every call awaited by handleSubmit (the fetch of
\* processCommand, updateBalance, updateUsdcBalance, fetchRecentTransactions)
\* settles: it resolves or rejects
SpecFair == Spec /\ WF_allVars(SubmitSteps)

NextPayees == NextWith(PayeeCommands)

\* the dashboard with a classifier that proposes sends to two different payees
SpecPayees == Init /\ [][NextPayees]_allVars

\* the wallets of a browser that holds two of them
TwoWallets == {"W1", "W2"}

NextSessions ==
    \/ \E w \in TwoWallets : Dash(Connect(w))
    \/ DashRest
    \/ Dash(HandleSubmit)
    \/ Dash(SubmitFailed)
    \/ \E cmd \in PayeeCommands : Dash(SubmitClassified(cmd))

\* the dashboard used by one wallet after the other
SpecSessions == Init /\ [][NextSessions]_allVars

Methods == {"POST", "GET"}

NextApi ==
    \/ Api(ConfigureKey)
    \/ \E method \in Methods, amount \in JsonAmounts, toAddress \in {NoString, "W2"},
          ctorOk \in BOOLEAN : Api(TxRequest(method, amount, toAddress, ctorOk))
    \/ \E r \in BagToSet(reqs), outcome \in {"funded", "low", "throws"} :
          Api(TxBalanceDone(r, outcome))
    \/ \E r \in BagToSet(reqs), ok \in BOOLEAN : Api(TxSendDone(r, ok))
    \/ \E method \in Methods, amount \in JsonAmounts,
          fromToken \in Tokens \cup {NoString}, toToken \in Tokens \cup {NoString},
          walletAddress \in {NoString, "W1"}, ctorOk \in BOOLEAN :
          Api(SwapRequest(method, amount, fromToken, toToken, walletAddress, ctorOk))
    \/ \E r \in BagToSet(reqs) : Api(SwapBuilt(r))
    \/ \E r \in BagToSet(reqs), t \in SwapThrows : Api(SwapFailed(r, t))
    \/ \E method \in Methods, text \in Texts \cup {NoString},
          key \in SessionWallets \cup {NoString}, ctorOk \in BOOLEAN :
          Api(ProcRequest(method, text, key, ctorOk))
    \/ \E r \in BagToSet(reqs), ok \in BOOLEAN : Api(ProcDone(r, ok))

\* the server process and its three route handlers
SpecApi == Init /\ [][NextApi]_allVars

\* handleSubmit calls processCommand and its fetch reaches the process-command
\* handler, which runs to its first await
FetchArrives(ctorOk) ==
    /\ HandleSubmit
    /\ ProcRequest("POST", input, publicKey, ctorOk)
    /\ UNCHANGED sizeVars

\* handleSubmit calls processCommand and its fetch never reaches the server
FetchLost ==
    /\ HandleSubmit
    /\ lastResponse' = NoResponse
    /\ UNCHANGED <<agentKey, gptService, reqs, sizeVars>>

\* processCommand returns data.result of a 200 response
FetchAnswered(cmd) ==
    /\ lastResponse.handler = "proc"
    /\ lastResponse.status = 200
    /\ SubmitClassified(cmd)
    /\ UNCHANGED <<apiVars, sizeVars>>

\* processCommand throws: the response is not ok, or the fetch was rejected
FetchFailed ==
    /\ \/ lastResponse.handler = "proc" /\ lastResponse.status # 200
       \/ lastResponse = NoResponse /\ reqs = EmptyBag
    /\ SubmitFailed
    /\ UNCHANGED <<apiVars, sizeVars>>

NextClassify ==
    \/ DashSteps
    \/ \E ctorOk \in BOOLEAN : FetchArrives(ctorOk)
    \/ FetchLost
    \/ \E r \in BagToSet(reqs), ok \in BOOLEAN : Api(ProcDone(r, ok))
    \/ \E cmd \in PayeeCommands : FetchAnswered(cmd)
    \/ FetchFailed

\* the dashboard with its processCommand served by the process-command handler
SpecClassify == Init /\ [][NextClassify]_allVars

\* a step of the sizing: neither the dashboard nor the server is touched
Size(A) == A /\ UNCHANGED <<vars, apiVars>>

\* the amounts a command carries, in units: none, negative, zero, below and
\* above one lamport, and 1 SOL
SizeAmounts == ((-1)..MaxUnits) \cup {NoAmount, OneSol}

\* the balances of the render, in units
SizeBalances == (0..MaxUnits) \cup {OneSol}

NextSizing ==
    \/ \E amount \in SizeAmounts, bal \in SizeBalances : Size(SizeTransfer(amount, bal))
    \/ Size(SizeDone)

\* executeTransaction as a function of the command's amount and the balance
SpecSizing == Init /\ [][NextSizing]_allVars

\* ------------------------------------------------------------------ claims
\* the executeTransaction calls of bag b that wait at pc
NumAt(b, pc) == BagCardinality([e \in {x \in BagToSet(b) : x.pc = pc} |-> b[e]])

\* the executeTransaction calls in flight for the command c
InFlightFor(c) ==
    {e \in BagToSet(execs) : e.amount = c.amount /\ e.toAddress = c.toAddress}

\* C1: a transfer is built (a new executeTransaction call is in flight at
\* getLatestBlockhash) only by a confirm of the held pendingTransaction, and it
\* is that command; sendTransaction is called only by a call in flight whose
\* blockhash arrived; no step of handleSubmit changes the calls in flight; a
\* confirm with nothing pending changes nothing.
TransferOnlyOnConfirm ==
    [][ /\ BagCardinality(execs') > BagCardinality(execs) =>
            /\ pendingTransaction # NoCommand
            /\ OnConfirmTransaction
            /\ \E e \in BagToSet(execs') :
                  /\ execs' = execs (+) SetToBag({e})
                  /\ e.pc = "blockhash"
                  /\ e.amount = pendingTransaction.amount
                  /\ e.toAddress = pendingTransaction.toAddress
        /\ NumAt(execs', "send") > NumAt(execs, "send") =>
            \E e \in BagToSet(execs) : ExecBlockhashOk(e)
        /\ hs' # hs => execs' = execs
        /\ (pendingTransaction = NoCommand /\ OnConfirmTransaction) => UNCHANGED vars
      ]_vars

\* C1 witness: a confirmed transfer was built and handed to sendTransaction
TransferSubmitted ==
    /\ \E e \in BagToSet(execs) : e.pc = "send"
    /\ transactionInProgress

\* C2: the cancel action does not act on a pendingTransaction whose
\* executeTransaction is in flight.
NoCancelWhileExecuting ==
    [][OnCancel => ~(transactionInProgress /\ InFlightFor(pendingTransaction) # {})]_vars

\* C3: when an executeTransaction returns, pendingTransaction is null and
\* transactionInProgress is false, and a call that did not end in a broadcast
\* leaves an error displayed.
ConfirmEndsIdle ==
    lastEvent.op = "executeTransaction" =>
        /\ pendingTransaction = NoCommand
        /\ transactionInProgress = FALSE
        /\ lastEvent.verdict # "executed" => transactionError.type = "error"

\* C4: a failed getLatestBlockhash or sendTransaction sets the 'Transaction
\* failed' error, clears pendingTransaction and transactionInProgress and ends
\* that executeTransaction call without a new network call; sendTransaction is
\* called once per blockhash that arrived.
BroadcastFailureNoRetry ==
    [][ /\ lastEvent' = ExecEvent("network error") =>
            /\ transactionError' = ErrFailed
            /\ pendingTransaction' = NoCommand
            /\ transactionInProgress' = FALSE
            /\ BagCardinality(execs') = BagCardinality(execs) - 1
            /\ NumAt(execs', "blockhash") <= NumAt(execs, "blockhash")
            /\ NumAt(execs', "send") <= NumAt(execs, "send")
        /\ NumAt(execs', "send") > NumAt(execs, "send") =>
            /\ NumAt(execs', "send") = NumAt(execs, "send") + 1
            /\ NumAt(execs', "blockhash") = NumAt(execs, "blockhash") - 1
            /\ BagCardinality(execs') = BagCardinality(execs)
      ]_vars

\* C4 witness: a broadcast has just failed
BroadcastFailed ==
    /\ lastEvent = ExecEvent("network error")
    /\ transactionError = ErrFailed
    /\ pendingTransaction = NoCommand

\* validateTransaction answers 'Insufficient balance' for every amount above
\* the balance it is given
ValidatorRejectsAboveBalance ==
    \A a \in Amounts, b \in Balances : a > b => ValidateTransaction(a, b) = ErrInsufficient

InvalidAmountRejected ==
    [][hs.pc = "classify" =>
         \A cmd \in WalletCommand :
            (SubmitClassified(cmd) /\ cmd.action = "send"
                /\ cmd.amount # NoAmount /\ cmd.amount <= 0 /\ cmd.error = NoString) =>
                /\ pendingTransaction' = pendingTransaction
                /\ transactionError' = ErrInvalidAmount
      ]_vars

\* C7: a handleSubmit whose send goes to the wallet's own address does not
\* make it the pendingTransaction.
SelfTransferRejected ==
    [][hs.pc = "classify" =>
         \A cmd \in WalletCommand :
            (SubmitClassified(cmd) /\ cmd.action = "send"
                /\ cmd.toAddress = hs.publicKey) =>
                pendingTransaction' # cmd
      ]_vars

\* C8: the held pendingTransaction has a destination that is a public key.
PendingAddressValid ==
    pendingTransaction # NoCommand => IsPublicKey(pendingTransaction.toAddress)

\* C9: a command with needsMoreInfo is never the held pendingTransaction.
PendingNeedsNoInfo ==
    pendingTransaction # NoCommand => ~pendingTransaction.needsMoreInfo

\* C10: a handleSubmit whose swap has a positive amount within the balance and
\* two different tokens makes it the pendingTransaction.
SwapProposed ==
    [][hs.pc = "classify" =>
         \A cmd \in WalletCommand :
            (SubmitClassified(cmd) /\ cmd.action = "swap"
                /\ cmd.amount > 0 /\ cmd.amount <= hs.balance
                /\ cmd.fromToken # cmd.toToken) =>
                pendingTransaction' = cmd
      ]_vars

\* C11: pendingTransaction is null or one command; a handleSubmit whose send
\* passes validation makes that command the pendingTransaction, also when
\* another one is held; a held pendingTransaction is exchanged for another only
\* by such a handleSubmit, which builds nothing; and a confirm builds the
\* transfer of the pendingTransaction held at that moment and of no other.
ReplacementHoldsNewer ==
    [][ /\ pendingTransaction' \in WalletCommand \cup {NoCommand}
        /\ (lastEvent'.op = "handleSubmit" /\ lastEvent'.verdict = "proposed") =>
              /\ hs.pc = "classify"
              /\ \E cmd \in WalletCommand : SubmitClassified(cmd)
              /\ \A cmd \in WalletCommand :
                    SubmitClassified(cmd) => pendingTransaction' = cmd
        /\ (pendingTransaction # NoCommand
              /\ pendingTransaction' \notin {NoCommand, pendingTransaction}) =>
              /\ lastEvent'.op = "handleSubmit"
              /\ lastEvent'.verdict = "proposed"
              /\ execs' = execs
        /\ execs' # execs /\ OnConfirmTransaction =>
              \E e \in BagToSet(execs') :
                  /\ execs' = execs (+) SetToBag({e})
                  /\ e.amount = pendingTransaction.amount
                  /\ e.toAddress = pendingTransaction.toAddress
      ]_vars

\* C11 witness: a validated send has just replaced a different held
\* pendingTransaction that was not executing
ReplacedWhileProposed ==
    /\ lastEvent.op = "handleSubmit"
    /\ lastEvent.verdict = "proposed"
    /\ lastEvent.held # NoCommand
    /\ lastEvent.held # pendingTransaction
    /\ ~transactionInProgress
    /\ execs = EmptyBag

\* C12: a held pendingTransaction becomes null only in a cancel, a wallet
\* disconnect, a confirm of it, or the return of an executeTransaction call
\* that was made for it (same amount and destination).
PendingDestroyedOnlyByOwner ==
    [][ (pendingTransaction # NoCommand /\ pendingTransaction' = NoCommand) =>
          \/ OnCancel
          \/ Disconnect
          \/ OnConfirmTransaction
          \/ /\ lastEvent'.op = "executeTransaction"
             /\ \E e \in InFlightFor(pendingTransaction) : execs' = ExecReturns(e)
      ]_vars

\* the invocations of handler waiting at the await named pc
ReqsAt(handler, pc) ==
    BagCardinality([r \in {x \in BagToSet(reqs) : x.handler = handler /\ x.pc = pc}
                      |-> reqs[r]])

\* C13: at most one invocation of the execute-transaction handler is inside
\* gptService.executeSend at a time.
AgentSendSerialized == ReqsAt("tx", "executeSend") <= 1

\* C14: while AGENT_PRIVATE_KEY is not set, gptService stays null and no
\* invocation of the execute-transaction handler waits at an await (none
\* reaches getBalance or executeSend); every request to the handler is answered
\* at once with an error status and changes nothing in the server, and a POST
\* with both parameters is answered 500 'Agent private key is required'.
NoKeyNoAgentSign ==
    [][ ~agentKey =>
          /\ gptService' = "null"
          /\ \A r \in BagToSet(reqs') : r.handler # "tx"
          /\ \A method \in Methods, amount \in JsonAmounts,
                toAddress \in {NoString, "W2"}, ctorOk \in BOOLEAN :
                TxRequest(method, amount, toAddress, ctorOk) =>
                    /\ lastResponse'.handler = "tx"
                    /\ lastResponse'.status \in {400, 405, 500}
                    /\ lastResponse'.error # NoString
                    /\ lastResponse'.payload = "none"
                    /\ reqs' = reqs
                    /\ (method = "POST" /\ TruthyJson(amount) /\ TruthyString(toAddress)) =>
                          lastResponse' = ErrorResponse("tx", 500,
                                                        "Agent private key is required")
      ]_allVars

\* C14 witness: a well-formed transfer request was just refused for the missing
\* key, and the singleton is still null
MissingKeyRefused ==
    /\ ~agentKey
    /\ lastResponse = ErrorResponse("tx", 500, "Agent private key is required")
    /\ gptService = "null"

\* a JSON amount that is a number greater than 0
PositiveNumber(j) == j = "n:1"

\* C15: no invalid amount reaches transaction construction: no executeTransaction
\* call of the dashboard is in flight with an amount <= 0, no invocation of the
\* execute-transaction handler reaches gptService.executeSend with an amount
\* that is not a positive number, and no invocation of the execute-swap handler
\* reaches buildSwapTransaction with a parsed amount that is NaN or <= 0.
NoInvalidAmountBuilt ==
    /\ \A e \in BagToSet(execs) : e.amount > 0
    /\ \A r \in BagToSet(reqs) :
          /\ (r.handler = "tx" /\ r.pc = "executeSend") => PositiveNumber(r.amount)
          /\ (r.handler = "swap" /\ r.pc = "buildSwap") => (r.parsed # NaN /\ r.parsed > 0)

\* the body execute-swap answers when no route was found
NoRouteResponse ==
    [handler |-> "swap", status |-> 200,
     error |-> "No swap routes found. Please try a higher amount or a different token pair.",
     payload |-> "null", message |-> NoString]

\* C16: when buildSwapTransaction throws an Error that mentions 'No swap
\* routes found', the execute-swap handler answers status 200 with a null
\* swapTransaction and the no-route text; every other thrown value is answered
\* with status 500 and no swapTransaction; a null swapTransaction is only
\* ever answered with status 200; and the dashboard's pendingTransaction
\* stays null.
NoRouteIsRecoverable ==
    [][ /\ \A r \in BagToSet(reqs), t \in SwapThrows :
              SwapFailed(r, t) =>
                  /\ (t \in {x \in SwapThrows : x.isError
                                  /\ x.message \in {"No swap routes found",
                                        "Swap failed: No swap routes found for this pair"}})
                        => lastResponse' = NoRouteResponse
                  /\ (~t.isError \/ t.message = "Quote service unavailable")
                        => (lastResponse'.status = 500 /\ lastResponse'.payload = "none"
                             /\ lastResponse'.error # NoString)
                  /\ reqs' = reqs (-) SetToBag({r})
        /\ lastResponse'.payload = "null" => lastResponse'.status = 200
        /\ pendingTransaction = NoCommand /\ pendingTransaction' = NoCommand
      ]_allVars

\* C16 witness: the handler has just answered that no route was found, and
\* nothing is pending
NoRouteAnswered ==
    /\ lastResponse = NoRouteResponse
    /\ pendingTransaction = NoCommand

\* C17: whether or not AGENT_PRIVATE_KEY is set, every invocation of the
\* execute-swap and process-command handlers works with a service built
\* without the agent key; the only payload a swap request is answered with is
\* the unsigned serialized transaction (or null); a signature is only ever
\* answered by execute-transaction, the only handler whose service holds the
\* agent key.
SwapAlwaysClientSigned ==
    /\ \A r \in BagToSet(reqs) :
          /\ r.handler \in {"swap", "proc"} => r.service = "null"
          /\ r.service = "agent" => r.handler = "tx"
    /\ lastResponse.handler = "swap" => lastResponse.payload \in {"none", "null", "unsigned"}
    /\ (lastResponse.handler = "swap" /\ lastResponse.status = 200
            /\ lastResponse.payload # "null") => lastResponse.payload = "unsigned"
    /\ lastResponse.payload \in {"signature", "signed"} => lastResponse.handler = "tx"

\* C17 witness: with the agent key set, a swap request was just answered with
\* an unsigned transaction
UnsignedSwapWithKeySet ==
    /\ agentKey
    /\ gptService = "agent"
    /\ lastResponse.handler = "swap"
    /\ lastResponse.status = 200
    /\ lastResponse.payload = "unsigned"

\* C18: no invocation of the execute-swap handler reaches buildSwapTransaction
\* with fromToken equal to toToken.
SameTokenSwapNotBuilt ==
    \A r \in BagToSet(reqs) :
        (r.handler = "swap" /\ r.pc = "buildSwap") => r.fromToken # r.toToken

\* C19: an executeTransaction call whose sendTransaction succeeded reaches
\* fetchRecentTransactions only through the answer of its updateBalance;
\* while such a call has not yet had that answer, transactionInProgress is
\* true and no handleSubmit validates a send; and a failed broadcast starts
\* no balance refresh and leaves the balance as it was.
RefreshFollowsBroadcast ==
    [][ /\ \A e \in BagToSet(execs') :
              e.pc \in {"sleep", "balance"} => transactionInProgress'
        /\ (lastEvent'.op = "handleSubmit"
              /\ lastEvent'.verdict \in {"proposed", "Invalid amount", "Insufficient balance"})
              => \A e \in BagToSet(execs) : e.pc \notin {"sleep", "balance"}
        /\ NumAt(execs', "history") > NumAt(execs, "history") =>
              \E e \in BagToSet(execs), ok \in BOOLEAN, b \in Balances :
                  ExecBalanceDone(e, ok, b)
        /\ lastEvent' = ExecEvent("network error") =>
              (balance' = balance /\ fetches' = fetches
                /\ NumAt(execs', "balance") = NumAt(execs, "balance"))
      ]_vars

\* C20: when processUserInput throws, the process-command handler answers
\* status 500 with an error text; and the handleSubmit that receives a
\* response that is not ok ends by displaying 'Processing Error', with
\* pendingTransaction, the executeTransaction calls in flight, the balance and
\* transactionInProgress as they were, and processing and isTyping false.
ClassifierFailureSurfaced ==
    [][ /\ \A r \in BagToSet(reqs) :
              ProcDone(r, FALSE) =>
                  /\ lastResponse'.handler = "proc"
                  /\ lastResponse'.status = 500
                  /\ lastResponse'.error # NoString
                  /\ lastResponse'.payload = "none"
        /\ (hs.pc = "classify" /\ hs' # hs
              /\ lastResponse.handler = "proc" /\ lastResponse.status # 200) =>
              /\ transactionError' = ErrProcessing
              /\ pendingTransaction' = pendingTransaction
              /\ execs' = execs
              /\ balance' = balance
              /\ transactionInProgress' = transactionInProgress
              /\ processing' = FALSE
              /\ isTyping' = FALSE
              /\ hs' = HsIdle
      ]_allVars

\* C20 witness: the handler answered that the classifier failed, and the
\* handleSubmit has just ended with the error displayed and the held
\* pendingTransaction still held
ClassifierFailureSeen ==
    /\ lastResponse = ErrorResponse("proc", 500, "Classifier failed")
    /\ lastEvent.op = "handleSubmit"
    /\ lastEvent.action = "threw"
    /\ transactionError = ErrProcessing
    /\ pendingTransaction # NoCommand
    /\ ~processing

\* C21: when a handleSubmit or an executeTransaction completes on a failure
\* path, the transactionError displayed describes that failure: the validation
\* error of a rejected send (not a classifier warning in its place), an error
\* for a send that was not handed to the validator, 'Processing Error' for a
\* processCommand that threw, and the validation error or 'Transaction failed'
\* for an executeTransaction that did not end in a broadcast.
ErrorsSurfaced ==
    /\ (lastEvent.op = "handleSubmit"
          /\ lastEvent.verdict \in {"Invalid amount", "Insufficient balance"}) =>
            (transactionError.type = "error"
              /\ transactionError.message = lastEvent.verdict)
    /\ (lastEvent.op = "handleSubmit" /\ lastEvent.action = "send"
          /\ lastEvent.verdict = "not validated") => transactionError.type = "error"
    /\ (lastEvent.op = "handleSubmit" /\ lastEvent.action = "threw") =>
            transactionError = ErrProcessing
    /\ (lastEvent.op = "executeTransaction"
          /\ lastEvent.verdict \in {"Invalid amount", "Insufficient balance"}) =>
            (transactionError.type = "error"
              /\ transactionError.message = lastEvent.verdict)
    /\ (lastEvent.op = "executeTransaction"
          /\ lastEvent.verdict \in {"build error", "network error"}) =>
            transactionError = ErrFailed

\* C22: the lamports of a transfer that was built equal amount * 10^9 exactly
\* for every validated amount: the conversion truncates nothing
LamportsExact ==
    sizing.pc = "built" => sizing.lamports * UnitsPerLamport = sizing.amount

\* C30: a send that passed validation (0 < amount <= balance) builds a
\* transfer of at least 1 lamport, also for an amount below 10^-9 SOL
LamportsPositive ==
    sizing.pc = "built" =>
        /\ sizing.amount > 0
        /\ sizing.amount <= sizing.balance
        /\ sizing.lamports >= 1

\* C23: Cancel makes no network call: it runs only while a send is pending,
\* clears pendingTransaction, starts no executeTransaction, handleSubmit or
\* balance fetch, leaves transactionInProgress and the balance alone, and it
\* cannot run a second time in a row, the dialog being gone
CancelMakesNoCall ==
    [][lastEvent'.op = "onCancel" =>
        /\ pendingTransaction # NoCommand
        /\ pendingTransaction' = NoCommand
        /\ execs' = execs
        /\ fetches' = fetches
        /\ hs' = hs
        /\ transactionInProgress' = transactionInProgress
        /\ balance' = balance
        /\ lastEvent.op # "onCancel"]_allVars

\* a proposed send was cancelled and the dashboard is idle
CancelledFromProposed ==
    /\ lastEvent.op = "onCancel"
    /\ pendingTransaction = NoCommand
    /\ ~transactionInProgress
    /\ execs = EmptyBag
    /\ response = "cancelled"

\* C24: one pendingTransaction is broadcast at most once: a confirm starts an
\* executeTransaction (which goes on to sendTransaction) only when no
\* executeTransaction for the pending transaction is in flight already
ConfirmBroadcastsOnce ==
    [][BagCardinality(execs') > BagCardinality(execs) =>
          InFlightFor(pendingTransaction) = {}]_allVars

\* C25: gptService.executeSend is never called before the balance check of
\* the agent wallet has completed: the check is made by the one request that
\* creates the singleton, so while that request waits at getBalance no
\* request waits at executeSend
FundingCheckedBeforeSend ==
    ReqsAt("tx", "getBalance") > 0 => ReqsAt("tx", "executeSend") = 0

\* C26: a confirmed send is validated again against the balance of the render
\* that confirms: a confirm whose validation fails clears pendingTransaction,
\* sets the validation error, leaves transactionInProgress as it was and
\* starts no call; a call is started, and transactionInProgress raised, only
\* for a pending amount that is positive and within the current balance
RevalidatedAtConfirm ==
    [][ /\ (vars' # vars /\ lastEvent'.op = "executeTransaction"
              /\ lastEvent'.verdict \in {"Invalid amount", "Insufficient balance"}) =>
                /\ pendingTransaction # NoCommand
                /\ pendingTransaction' = NoCommand
                /\ transactionError' = ValidateTransaction(pendingTransaction.amount, balance)
                /\ transactionError'.message = lastEvent'.verdict
                /\ transactionInProgress' = transactionInProgress
                /\ execs' = execs
        /\ (BagCardinality(execs') > BagCardinality(execs)
              \/ (~transactionInProgress /\ transactionInProgress')) =>
                /\ pendingTransaction # NoCommand
                /\ pendingTransaction.amount > 0
                /\ pendingTransaction.amount <= balance
      ]_allVars

\* a send proposed within the balance was confirmed after the balance fell
\* below its amount: it is dropped with 'Insufficient balance', nothing runs
ConfirmRejectedAfterBalanceFell ==
    /\ lastEvent = ExecEvent("Insufficient balance")
    /\ transactionError = ErrInsufficient
    /\ pendingTransaction = NoCommand
    /\ ~transactionInProgress
    /\ execs = EmptyBag

\* C27: the session state belongs to the connected wallet: a disconnect
\* clears pendingTransaction and sets the balance to 0, and an updateBalance
\* (of the effect, the refresh button, a check_balance or an
\* executeTransaction) that completes while another wallet is connected than
\* the one it was started for does not write the balance
SessionScoped ==
    [][ /\ (publicKey # NoKey /\ publicKey' = NoKey) =>
              (balance' = 0 /\ pendingTransaction' = NoCommand)
        /\ \A w \in fetches \ fetches' :
              (publicKey # NoKey /\ w # publicKey) => balance' = balance
        /\ \A e \in BagToSet(execs) :
              (e.pc = "balance" /\ execs' = ExecMoves(e, "history")
                 /\ publicKey # NoKey /\ e.publicKey # publicKey) => balance' = balance
        /\ (hs.pc = "balance" /\ hs'.pc = "usdc"
              /\ publicKey # NoKey /\ hs.publicKey # publicKey) => balance' = balance
      ]_allVars

\* C28: a handleSubmit that does not propose a send (its command is
\* check_balance, show_history, ask_address, receive or swap, or a send that
\* fails validation or lacks amount or address, or processCommand threw)
\* leaves pendingTransaction and transactionInProgress as they were at each
\* of its steps; one that proposes leaves transactionInProgress as it was
NonFinancialKeepsConfirmation ==
    [][hs' # hs =>
        /\ transactionInProgress' = transactionInProgress
        /\ (lastEvent'.op = "handleSubmit" /\ lastEvent'.verdict = "proposed")
              \/ pendingTransaction' = pendingTransaction]_allVars

\* a check_balance, show_history, ask_address, receive or swap command was
\* answered while a send was Proposed, and the send is still Proposed
QueryWhileProposed ==
    /\ lastEvent.op = "handleSubmit"
    /\ lastEvent.action \in {"check_balance", "show_history", "ask_address",
                            "receive", "swap"}
    /\ lastEvent.held # NoCommand
    /\ pendingTransaction = lastEvent.held
    /\ ~transactionInProgress

\* C29: every handleSubmit that starts processing finishes with processing
\* and isTyping false, and a handleSubmit starts only when no command is
\* being processed and no transaction is executing
SubmitFinishesAlone ==
    /\ processing ~> (~processing /\ ~isTyping)
    /\ [][(hs.pc = "idle" /\ hs'.pc = "classify") =>
            /\ ~processing
            /\ ~transactionInProgress
            /\ execs = EmptyBag]_allVars

====
